---------------------------- MODULE Spec2Model ----------------------------
(***************************************************************************)
(* Model of primes_visualisation.                                          *)
(*                                                                         *)
(* The prime generation utilities (sieveOfEratosthenes, firstNPrimes,      *)
(* primeGaps, isPrime, primeFactorization; ModularGrid.ts, lines 107-187)  *)
(* are operators that run the loops of the code.  firstNPrimes is also a   *)
(* step machine (one step per pass of its retry loop) and so is            *)
(* sieveOfEratosthenes (one step per pass of its outer loop).  A caller    *)
(* applies the functions to inputs drawn from bounded sets; `last` records *)
(* the latest finished call.                                               *)
(*                                                                         *)
(* The rest of the program is modelled by further specifications over the  *)
(* same state: UlamSpiral.numberToPosition (SpecUlam), the labels of a     *)
(* visualization (SpecLabels) and the page's event handlers, timers and    *)
(* animation frames (SpecUI).  Each specification leaves the variables of  *)
(* the others unchanged.                                                   *)
(***************************************************************************)
EXTENDS Integers, Sequences, FiniteSets

VARIABLES
    pc,          \* "idle": no call in progress; "loop": firstNPrimes is at line 139
    last,        \* the latest finished call: [fn, arg, ret, ...]
    n,           \* firstNPrimes: its parameter
    estimate,    \* firstNPrimes: const estimate (line 133)
    primes,      \* firstNPrimes: let primes (line 135)
    multiplier,  \* firstNPrimes: let multiplier (line 138)
    bounds,      \* history: the limits firstNPrimes has sieved in this call
    pinned,      \* history: one earlier result of firstNPrimes, kept for comparison
    sieve,       \* sieveOfEratosthenes run pass by pass: [at, limit, i, isComposite, primes]
    placed,      \* the latest call of UlamSpiral.numberToPosition: [n, k, side, at]
    labelsGroup, \* BaseVisualization.labelsGroup: Null or the numbers of its sprites
    scene,       \* the label groups the visualization's scene contains
    shown,       \* the arguments of the latest addLabels or clearLabels call
    countSlider,          \* main: countSlider.value, as a number
    currentVisualization, \* main: the current visualization object (0: null)
    currentMode,          \* main: currentMode
    animationId,          \* main: the id of the latest animation frame request
    frames,               \* the animation frame requests that are pending
    timers,               \* the updateVisualization calls waiting at their 10 ms timer
    disposed,             \* history: the visualization objects whose dispose() was called
    used                  \* history: the latest update() or render() call

callVars == <<pc, last, n, estimate, primes, multiplier, bounds>>

labelVars == <<labelsGroup, scene, shown>>

viewVars == <<placed, labelVars>>

uiVars == <<countSlider, currentVisualization, currentMode, animationId, frames,
            timers, disposed, used>>

vars == <<callVars, pinned, sieve, viewVars, uiVars>>

(***************************************************************************)
(* Bounds of the model.                                                    *)
(***************************************************************************)
MaxNum == 50        \* largest limit sieved and largest number factored
MaxK == 100         \* largest k given to isPrime
NegInputs == 2      \* inputs go down to -NegInputs
MaxN == 10          \* largest count asked of firstNPrimes
MaxEstimate == 4    \* the retry loop is also started from estimates 1..MaxEstimate
MaxSeqLen == 3      \* primeGaps: longest arbitrary input sequence
MaxSeqVal == 3      \* primeGaps: arbitrary input elements are in 0..MaxSeqVal
MaxBetween == 2     \* largest input of the calls made between two firstNPrimes calls
MaxPlace == 130     \* largest number given to UlamSpiral.numberToPosition
MaxViewCount == 16  \* largest count of primes a visualization is updated with
MaxInstances == 3   \* visualization objects created in one run
MaxPending == 2     \* updateVisualization calls waiting at their timer at one time
MaxClicks == 2      \* count-minus / count-plus clicks followed from an end of the range

Inputs == (0 - NegInputs)..MaxNum
Counts == (0 - NegInputs)..MaxN
KInputs == (0 - NegInputs)..MaxK

(***************************************************************************)
(* Reference notions the properties are stated with (not code).            *)
(***************************************************************************)
Divides(d, m) == m % d = 0

IsPrimeNumber(p) == p >= 2 /\ \A d \in 2..(p - 1) : ~Divides(d, p)

Range(s) == {s[x] : x \in 1..Len(s)}

StrictlyIncreasing(s) == \A x \in 1..(Len(s) - 1) : s[x] < s[x + 1]

NonDecreasing(s) == \A x \in 1..(Len(s) - 1) : s[x] <= s[x + 1]

RECURSIVE Product(_)
Product(s) == IF s = <<>> THEN 1 ELSE Head(s) * Product(Tail(s))

PrimesUpTo(m) == {p \in 2..m : IsPrimeNumber(p)}

(***************************************************************************)
(* sieveOfEratosthenes (lines 107-124)                                     *)
(***************************************************************************)
\* line 108: if (limit < 2) return [];
SieveGuardDropped(limit) == FALSE
SieveGuard(limit) == limit < 2

\* line 110: new Uint8Array(length) throws a RangeError for a negative length
Uint8ArrayThrows(length) == length < 0

\* line 110: a zero-filled array with indices 0..length-1
Uint8Array(length) == [x \in 0..(length - 1) |-> 0]

\* line 117: let j = i * i
FirstMultipleAfterSquare(i) == i * i + i
FirstMultiple(i) == i * i

\* the inner loop leaving after its first pass
MarkMultiplesOnce(isComposite, j, i, limit) ==
    IF j <= limit THEN [isComposite EXCEPT ![j] = 1] ELSE isComposite

\* lines 117-119: for (let j = i * i; j <= limit; j += i) isComposite[j] = 1;
RECURSIVE MarkMultiples(_, _, _, _)
MarkMultiples(isComposite, j, i, limit) ==
    IF j <= limit
    THEN MarkMultiples([isComposite EXCEPT ![j] = 1], j + i, i, limit)
    ELSE isComposite

\* line 113: the outer loop's condition i <= limit
OuterCondExclusive(i, limit) == i < limit
OuterCond(i, limit) == i <= limit

\* lines 113-121: for (let i = 2; i <= limit; i++) { if (!isComposite[i]) {...} },
\* from index i on, with the array and the primes pushed so far
RECURSIVE SieveRun(_, _, _, _)
SieveRun(i, limit, isComposite, found) ==
    IF OuterCond(i, limit)
    THEN IF isComposite[i] = 0
         THEN SieveRun(i + 1, limit,
                       MarkMultiples(isComposite, FirstMultiple(i), i, limit),
                       Append(found, i))
         ELSE SieveRun(i + 1, limit, isComposite, found)
    ELSE found

\* whether the call ends in the RangeError of line 110
sieveThrows(limit) == ~SieveGuard(limit) /\ Uint8ArrayThrows(limit + 1)

sieveOfEratosthenes(limit) ==
    IF SieveGuard(limit) \/ sieveThrows(limit)
    THEN <<>>
    ELSE SieveRun(2, limit, Uint8Array(limit + 1), <<>>)

(***************************************************************************)
(* primeGaps (lines 147-155)                                               *)
(***************************************************************************)
\* line 152: primes[i] - primes[i - 1], i a 0-based index (ps[i + 1] here)
GapAtReversed(ps, i) == ps[i] - ps[i + 1]
GapAt(ps, i) == ps[i + 1] - ps[i]

\* line 151: let i = 1
GapsFirstIndexTwo == 1 + 1
GapsFirstIndex == 1

\* lines 151-153: for (let i = 1; i < primes.length; i++) gaps.push(...)
RECURSIVE GapsLoop(_, _, _)
GapsLoop(ps, i, gaps) ==
    IF i < Len(ps)
    THEN GapsLoop(ps, i + 1, Append(gaps, GapAt(ps, i)))
    ELSE gaps

primeGaps(ps) ==
    IF Len(ps) < 2 THEN <<>> ELSE GapsLoop(ps, GapsFirstIndex, <<>>)

(***************************************************************************)
(* isPrime (lines 157-167)                                                 *)
(***************************************************************************)
\* line 162: Math.sqrt(n); the loop compares the integer i with it, so only
\* its integer part matters
FloorSqrt(num) == CHOOSE r \in 0..num : r * r <= num /\ (r + 1) * (r + 1) > num

\* line 163: the loop's condition i <= sqrt
TrialCondStrict(i, num) == i < FloorSqrt(num)
TrialCond(i, num) == i <= FloorSqrt(num)

\* lines 163-166: for (let i = 3; i <= sqrt; i += 2) if (n % i === 0) return false;
RECURSIVE TrialLoop(_, _)
TrialLoop(num, i) ==
    IF TrialCond(i, num)
    THEN IF num % i = 0 THEN FALSE ELSE TrialLoop(num, i + 2)
    ELSE TRUE

isPrime(num) ==
    IF num < 2 THEN FALSE
    ELSE IF num = 2 THEN TRUE
    ELSE IF num % 2 = 0 THEN FALSE
    ELSE TrialLoop(num, 3)

(***************************************************************************)
(* primeFactorization (lines 169-187)                                      *)
(* The loops work on st = [n, factors]: the parameter n, reassigned as it  *)
(* is divided down, and the factors pushed so far.                         *)
(***************************************************************************)
\* lines 173-176: while (n % 2 === 0) { factors.push(2); n = Math.floor(n / 2); }
RECURSIVE DivideOutTwos(_)
DivideOutTwos(st) ==
    IF st.n % 2 = 0
    THEN DivideOutTwos([n |-> st.n \div 2, factors |-> Append(st.factors, 2)])
    ELSE st

\* lines 179-182: while (n % i === 0) { factors.push(i); n = Math.floor(n / i); }
RECURSIVE DivideOut(_, _)
DivideOut(st, i) ==
    IF st.n % i = 0
    THEN DivideOut([n |-> st.n \div i, factors |-> Append(st.factors, i)], i)
    ELSE st

\* line 178: the loop's condition i * i <= n
OddCondStrict(i, num) == i * i < num
OddCond(i, num) == i * i <= num

\* lines 178-183: for (let i = 3; i * i <= n; i += 2) { ... }
RECURSIVE OddLoop(_, _)
OddLoop(st, i) ==
    IF OddCond(i, st.n) THEN OddLoop(DivideOut(st, i), i + 2) ELSE st

\* the state at line 185, after both loops (num >= 2)
AfterLoops(num) == OddLoop(DivideOutTwos([n |-> num, factors |-> <<>>]), 3)

primeFactorization(num) ==
    IF num < 2 THEN <<>>
    ELSE LET st == AfterLoops(num)
         IN  IF st.n > 1 THEN Append(st.factors, st.n) ELSE st.factors

(***************************************************************************)
(* firstNPrimes (lines 126-145)                                            *)
(***************************************************************************)
\* line 133: the fixed bound used for n < 6
SmallBoundTen == 5 + 5
SmallBound == 15

\* line 133: Math.ceil(n * (lnN + Math.log(lnN)) * 1.3) for n = 6, 7, ..., 20,
\* evaluated in double precision (no value is within 0.03 of an integer, so
\* the rounding of Math.log does not decide any entry)
LogEstimate ==
    <<19, 24, 30, 35, 41, 47, 53, 60, 66, 73, 79, 86, 93, 100, 107>>

\* lines 132-133: const estimate = n < 6 ? 15 : Math.ceil(...)
Estimate(cnt) == IF cnt < 6 THEN SmallBound ELSE LogEstimate[cnt - 5]

\* line 139: the retry loop's condition primes.length < n
NeedsRetryOffByOne(ps, cnt) == Len(ps) < cnt - 1
NeedsRetry(ps, cnt) == Len(ps) < cnt

\* line 140: the limit of the re-sieve, estimate * multiplier
RetryLimit(est, mult) == est * mult

\* line 141: multiplier *= 2
NextMultiplierAdds(mult) == mult + 2
NextMultiplier(mult) == mult * 2

\* line 144: primes.slice(0, n), for n >= 0
\* primes.slice(-n): the last n elements instead of the first
sliceTail(ps, cnt) == SubSeq(ps, IF Len(ps) > cnt THEN Len(ps) - cnt + 1 ELSE 1, Len(ps))

sliceWhole(ps, cnt) == ps
slice(ps, cnt) == SubSeq(ps, 1, IF cnt < Len(ps) THEN cnt ELSE Len(ps))

\* lines 139-142 run to their end
RECURSIVE RetryLoop(_, _, _, _)
RetryLoop(cnt, est, ps, mult) ==
    IF NeedsRetry(ps, cnt)
    THEN RetryLoop(cnt, est, sieveOfEratosthenes(RetryLimit(est, mult)),
                   NextMultiplier(mult))
    ELSE ps

\* lines 135-144 from a given estimate
firstNPrimesFrom(cnt, est) ==
    slice(RetryLoop(cnt, est, sieveOfEratosthenes(est), 2), cnt)

\* lines 127-128: the results of the two early returns
EarlyReturn(cnt) == IF cnt <= 0 THEN <<>> ELSE <<2>>

firstNPrimes(cnt) ==
    IF cnt <= 1 THEN EarlyReturn(cnt) ELSE firstNPrimesFrom(cnt, Estimate(cnt))

(***************************************************************************)
(* The caller.                                                             *)
(***************************************************************************)
NoCall == [fn |-> "none"]

NoPin == [set |-> FALSE]

\* no call of sieveOfEratosthenes is being followed
NoSieve == [at |-> "idle"]

\* UlamSpiral.numberToPosition not called yet
NotPlaced == [n |-> 0]

\* index.ts line 211: labelsGroup: THREE.Group | null = null
Null == [name |-> "null"]

\* neither addLabels nor clearLabels called yet
NoLabelsCall == [fn |-> "none", by |-> "none"]

\* part_001 line 33: "Adjust number of primes (100 to 1,000,000)"
MinCount == 100

\* part_000 line 260: Math.min(1000000, ...)
MaxCount == 1000000

\* part_000 line 134: let currentVisualization: BaseVisualization | null = null
NoVisualization == 0

\* neither update() nor render() called yet
NotUsed == [op |-> "none"]

Init ==
    /\ pinned = NoPin
    /\ sieve = NoSieve
    /\ placed = NotPlaced
    /\ labelsGroup = Null
    /\ scene = <<>>
    /\ shown = NoLabelsCall
    /\ countSlider = MinCount
    /\ currentVisualization = NoVisualization
    /\ currentMode = "ulam"
    /\ animationId = 0
    /\ frames = {}
    /\ timers = <<>>
    /\ disposed = {}
    /\ used = NotUsed
    /\ pc = "idle"
    /\ last = NoCall
    /\ n = 0
    /\ estimate = 0
    /\ primes = <<>>
    /\ multiplier = 0
    /\ bounds = <<>>

\* The locals of firstNPrimes exist only during a call.
NoFrame ==
    /\ n' = 0
    /\ estimate' = 0
    /\ primes' = <<>>
    /\ multiplier' = 0
    /\ bounds' = <<>>

UnchangedFrame == UNCHANGED <<n, estimate, primes, multiplier, bounds>>

SieveCallOn(S) ==
    /\ pc = "idle"
    /\ \E limit \in S :
          last' = [fn |-> "sieveOfEratosthenes", arg |-> limit,
                   ret |-> sieveOfEratosthenes(limit), threw |-> sieveThrows(limit)]
    /\ UNCHANGED pc
    /\ UnchangedFrame

Call_sieveOfEratosthenes == SieveCallOn(Inputs)

Call_isPrime ==
    /\ pc = "idle"
    /\ \E k \in KInputs :
          last' = [fn |-> "isPrime", arg |-> k, ret |-> isPrime(k)]
    /\ UNCHANGED pc
    /\ UnchangedFrame

\* rest: the value of n at line 185 (1 when the function returned at line 171)
FactorizationCallOn(S) ==
    /\ pc = "idle"
    /\ \E num \in S :
          last' = [fn |-> "primeFactorization", arg |-> num,
                   ret |-> primeFactorization(num),
                   rest |-> IF num < 2 THEN 1 ELSE AfterLoops(num).n]
    /\ UNCHANGED pc
    /\ UnchangedFrame

Call_primeFactorization == FactorizationCallOn(Inputs)

\* The sequences primeGaps is applied to: short arbitrary ones, and the
\* result of the latest firstNPrimes call, as PrimeGaps.update does.
SeqsUpTo(maxLen, maxVal) == UNION {[1..len -> 0..maxVal] : len \in 0..maxLen}

ArbitrarySeqs == SeqsUpTo(MaxSeqLen, MaxSeqVal)

GapsCallOn(S) ==
    /\ pc = "idle"
    /\ \/ \E ps \in S :
             last' = [fn |-> "primeGaps", arg |-> ps, ret |-> primeGaps(ps), of |-> -1]
       \/ /\ last.fn = "firstNPrimes"
          /\ last' = [fn |-> "primeGaps", arg |-> last.ret, ret |-> primeGaps(last.ret),
                      of |-> last.arg]
    /\ UNCHANGED pc
    /\ UnchangedFrame

Call_primeGaps == GapsCallOn(ArbitrarySeqs)

\* The estimates the general path is started from: the code's own, and the
\* small ones that make the retry loop run (the constants of line 133 are
\* tuning constants; the loop is what guarantees the result).
Estimates(cnt) == {Estimate(cnt)} \cup 1..MaxEstimate

\* lines 127-138: the call up to the first test of the loop's condition
Call_firstNPrimes ==
    /\ pc = "idle"
    /\ \E cnt \in Counts :
          IF cnt <= 1
          THEN /\ last' = [fn |-> "firstNPrimes", arg |-> cnt, ret |-> EarlyReturn(cnt),
                           estimate |-> 0, bounds |-> <<>>]
               /\ UNCHANGED pc
               /\ UnchangedFrame
          ELSE \E est \in Estimates(cnt) :
               /\ n' = cnt
               /\ estimate' = est
               /\ primes' = sieveOfEratosthenes(est)
               /\ multiplier' = 2
               /\ bounds' = <<est>>
               /\ pc' = "loop"
               /\ last' = NoCall

\* lines 139-142: one pass of the retry loop
Retry ==
    /\ pc = "loop"
    /\ NeedsRetry(primes, n)
    /\ primes' = sieveOfEratosthenes(RetryLimit(estimate, multiplier))
    /\ multiplier' = NextMultiplier(multiplier)
    /\ bounds' = Append(bounds, RetryLimit(estimate, multiplier))
    /\ UNCHANGED <<pc, last, n, estimate>>

\* line 144: the loop's exit and the return
Return ==
    /\ pc = "loop"
    /\ ~NeedsRetry(primes, n)
    /\ last' = [fn |-> "firstNPrimes", arg |-> n, ret |-> slice(primes, n),
                estimate |-> estimate, bounds |-> bounds]
    /\ pc' = "idle"
    /\ NoFrame

\* Calls of the utilities touch nothing but their own state.
OnlyCalls == UNCHANGED <<pinned, sieve, viewVars, uiVars>>

Next ==
    \/ Call_sieveOfEratosthenes /\ OnlyCalls
    \/ Call_isPrime /\ OnlyCalls
    \/ Call_primeFactorization /\ OnlyCalls
    \/ Call_primeGaps /\ OnlyCalls
    \/ Call_firstNPrimes /\ OnlyCalls
    \/ Retry /\ OnlyCalls
    \/ Return /\ OnlyCalls

Spec == Init /\ [][Next]_vars

\* firstNPrimes is synchronous: once called it runs to its return.
FairSpec == Spec /\ WF_vars(Retry /\ OnlyCalls) /\ WF_vars(Return /\ OnlyCalls)

(***************************************************************************)
(* firstNPrimes called again and again, with other calls in between, and   *)
(* its general path entered with n = 1.                                    *)
(***************************************************************************)
BetweenInputs == (0 - NegInputs)..MaxBetween

BetweenSeqs == SeqsUpTo(MaxBetween, 1)

\* The caller keeps one result of firstNPrimes.
Pin ==
    /\ pc = "idle"
    /\ last.fn = "firstNPrimes"
    /\ ~pinned.set
    /\ pinned' = [set |-> TRUE, arg |-> last.arg, ret |-> last.ret, between |-> FALSE]
    /\ UNCHANGED <<callVars, sieve, viewVars, uiVars>>

\* A call of another function was made after the result was kept.
NoteBetween ==
    /\ pinned' = IF pinned.set THEN [pinned EXCEPT !.between = TRUE] ELSE pinned
    /\ UNCHANGED <<sieve, viewVars, uiVars>>

\* lines 130-144 with n = 1, as if the return of line 128 were not there
Call_generalPath ==
    /\ pc = "idle"
    /\ \E est \in Estimates(1) :
          last' = [fn |-> "generalPath", arg |-> 1, ret |-> firstNPrimesFrom(1, est),
                   estimate |-> est]
    /\ UNCHANGED pc
    /\ UnchangedFrame
    /\ OnlyCalls

NextFirstN ==
    \/ Call_firstNPrimes /\ OnlyCalls
    \/ Retry /\ OnlyCalls
    \/ Return /\ OnlyCalls
    \/ Pin
    \/ SieveCallOn(BetweenInputs) /\ NoteBetween
    \/ GapsCallOn(BetweenSeqs) /\ NoteBetween
    \/ FactorizationCallOn(BetweenInputs) /\ NoteBetween
    \/ Call_generalPath

SpecFirstN == Init /\ [][NextFirstN]_vars

(***************************************************************************)
(* sieveOfEratosthenes followed pass by pass of its outer loop.            *)
(***************************************************************************)
\* lines 108-111: the guard, the array and the empty result
SieveStart ==
    /\ sieve.at # "outer"
    /\ \E limit \in Inputs :
          sieve' = IF SieveGuard(limit)
                   THEN [at |-> "returned", limit |-> limit, primes |-> <<>>]
                   ELSE [at |-> "outer", limit |-> limit, i |-> 2,
                         isComposite |-> Uint8Array(limit + 1), primes |-> <<>>]
    /\ UNCHANGED <<callVars, pinned, viewVars, uiVars>>

\* lines 113-121: one pass of the outer loop
SievePass ==
    /\ sieve.at = "outer"
    /\ OuterCond(sieve.i, sieve.limit)
    /\ sieve' = IF sieve.isComposite[sieve.i] = 0
                THEN [sieve EXCEPT
                        !.primes = Append(@, sieve.i),
                        !.isComposite = MarkMultiples(@, FirstMultiple(sieve.i),
                                                      sieve.i, sieve.limit),
                        !.i = @ + 1]
                ELSE [sieve EXCEPT !.i = @ + 1]
    /\ UNCHANGED <<callVars, pinned, viewVars, uiVars>>

\* line 123: the loop's exit and the return
SieveReturn ==
    /\ sieve.at = "outer"
    /\ ~OuterCond(sieve.i, sieve.limit)
    /\ sieve' = [at |-> "returned", limit |-> sieve.limit, primes |-> sieve.primes]
    /\ UNCHANGED <<callVars, pinned, viewVars, uiVars>>

NextSieve ==
    \/ SieveStart
    \/ SievePass
    \/ SieveReturn

SpecSieve == Init /\ [][NextSieve]_vars

(***************************************************************************)
(* UlamSpiral.numberToPosition (PrimeGaps.ts, lines 171-198)               *)
(***************************************************************************)
\* line 175: Math.ceil((Math.sqrt(n) - 1) / 2), the least k with (2k+1)^2 >= n
RECURSIVE RingFrom(_, _)
RingFrom(k, num) ==
    IF (2 * k + 1) * (2 * k + 1) >= num THEN k ELSE RingFrom(k + 1, num)

Ring(num) == RingFrom(0, num)

\* line 176
maxInRing(k) == (2 * k + 1) * (2 * k + 1)

\* line 177
sideLengthOdd(k) == 2 * k + 1
sideLength(k) == 2 * k

\* line 180
Offset(num) == maxInRing(Ring(num)) - num

\* line 183
Side(num) == Offset(num) \div sideLength(Ring(num))

\* line 184
Pos(num) == Offset(num) % sideLength(Ring(num))

\* lines 172 and 186-197
numberToPosition(num) ==
    IF num = 1
    THEN [x |-> 0, y |-> 0]
    ELSE LET k == Ring(num)
             pos == Pos(num)
         IN  CASE Side(num) = 0 -> [x |-> k, y |-> k - pos]
               [] Side(num) = 1 -> [x |-> k - pos, y |-> 0 - k]
               [] Side(num) = 2 -> [x |-> 0 - k, y |-> 0 - k + pos]
               [] Side(num) = 3 -> [x |-> 0 - k + pos, y |-> k]
               [] OTHER -> [x |-> k - pos, y |-> k]

\* the branch of the switch a call takes
Branch(num) ==
    IF num = 1 THEN "centre"
    ELSE IF Side(num) \in 0..3 THEN "case" ELSE "default"

\* lines 220-221 of UlamSpiral.update: numberToPosition(n) for n from 1 on
Place ==
    /\ \E num \in 1..MaxPlace :
          placed' = [n |-> num, at |-> numberToPosition(num), branch |-> Branch(num)]
    /\ UNCHANGED <<callVars, pinned, sieve, labelVars, uiVars>>

NextUlam ==
    \/ Place

SpecUlam == Init /\ [][NextUlam]_vars

(***************************************************************************)
(* The labels of a visualization (index.ts, lines 211-224 and 256-285).    *)
(* A label group is the set of the numbers its sprites show; the scene is  *)
(* the sequence of the label groups it contains.                           *)
(***************************************************************************)
\* index.ts line 269: for (let n = 1; n <= 100; n++)
LabelLimit == 100

RECURSIVE RemoveOne(_, _)
RemoveOne(groups, g) ==
    IF groups = <<>> THEN <<>>
    ELSE IF Head(groups) = g THEN Tail(groups)
    ELSE <<Head(groups)>> \o RemoveOne(Tail(groups), g)

\* the fields of the visualization that the label functions touch
Labels == [labelsGroup |-> labelsGroup, scene |-> scene]

\* clearLabels that forgets this.scene.remove(this.labelsGroup)
clearLabelsKeepsScene(v) == [v EXCEPT !.labelsGroup = Null]

\* lines 213-224
clearLabels(v) ==
    IF v.labelsGroup # Null
    THEN [labelsGroup |-> Null, scene |-> RemoveOne(v.scene, v.labelsGroup)]
    ELSE v

\* lines 269-282: the numbers that get a sprite
Sprites(keys, primeSet, showPrimeLabels, showCompositeLabels) ==
    {m \in 1..LabelLimit :
        /\ m \in keys
        /\ ~(m \in primeSet /\ ~showPrimeLabels)
        /\ ~(m \notin primeSet /\ ~showCompositeLabels)}

\* lines 256-285
addLabels(v, keys, primeSet, showPrimeLabels, showCompositeLabels) ==
    LET cleared == clearLabels(v)
        group == [name |-> "labels",
                  sprites |-> Sprites(keys, primeSet, showPrimeLabels, showCompositeLabels)]
    IN  IF ~showPrimeLabels /\ ~showCompositeLabels
        THEN cleared
        ELSE [labelsGroup |-> group, scene |-> Append(cleared.scene, group)]

ViewCounts == 1..MaxViewCount

\* The classes differ in the positions they hand to addLabels.
CanUpdateAs(class) == shown.by \in {"none", class}

\* UlamSpiral, SacksSpiral, ModularGrid: for n = 1..maxPrime, if (n <= 100) set
KeysUpToMaxPrime(maxPrime) == {m \in 1..maxPrime : m <= 100}

\* PolarSpiral, Spherical3D: for (let n = 1; n <= 100; n++) set
KeysAll == 1..100

\* the keys of the positionMap the class's update builds
PositionKeys(class, maxPrime) ==
    IF class = "PolarSpiral" THEN KeysAll ELSE KeysUpToMaxPrime(maxPrime)

\* update(config) of a class, as far as the labels go
UpdateWith(class) ==
    /\ \E count \in ViewCounts :
          LET ps == firstNPrimes(count)
              maxPrime == ps[Len(ps)]
              primeSet == Range(ps)
          IN  \E showPrimeLabels \in BOOLEAN, showCompositeLabels \in BOOLEAN :
                 LET after == addLabels(Labels, PositionKeys(class, maxPrime), primeSet,
                                        showPrimeLabels, showCompositeLabels)
                 IN  /\ labelsGroup' = after.labelsGroup
                     /\ scene' = after.scene
                     /\ shown' = [fn |-> "addLabels", by |-> class,
                                  keys |-> PositionKeys(class, maxPrime),
                                  primeSet |-> primeSet,
                                  showPrimeLabels |-> showPrimeLabels,
                                  showCompositeLabels |-> showCompositeLabels]
    /\ UNCHANGED <<callVars, pinned, sieve, placed, uiVars>>

Update_UpToMaxPrime ==
    /\ CanUpdateAs("UlamSpiral")
    /\ UpdateWith("UlamSpiral")

Update_All ==
    /\ CanUpdateAs("PolarSpiral")
    /\ UpdateWith("PolarSpiral")

\* PrimeGaps.update (PrimeGaps.ts line 51) and BaseVisualization.dispose
\* (index.ts line 190) only clear the labels
ClearOnly ==
    /\ shown.fn # "none"
    /\ LET after == clearLabels(Labels)
       IN  /\ labelsGroup' = after.labelsGroup
           /\ scene' = after.scene
    /\ shown' = [fn |-> "clearLabels", by |-> shown.by]
    /\ UNCHANGED <<callVars, pinned, sieve, placed, uiVars>>

\* switchMode: a new visualization, with its own empty scene
NewVisualization ==
    /\ shown.fn # "none"
    /\ labelsGroup' = Null
    /\ scene' = <<>>
    /\ shown' = NoLabelsCall
    /\ UNCHANGED <<callVars, pinned, sieve, placed, uiVars>>

NextLabels ==
    \/ Update_UpToMaxPrime
    \/ Update_All
    \/ ClearOnly
    \/ NewVisualization

SpecLabels == Init /\ [][NextLabels]_vars

(***************************************************************************)
(* The page (part_000, lines 134-300): its event handlers, the 10 ms timer *)
(* continuations of updateVisualization and the animation frame callbacks. *)
(* Each handler runs to completion (one thread); a timer continuation is   *)
(* lines 172-205.  Visualization objects are numbered in the order of      *)
(* their creation.  The prime generation of line 175 is modelled above;    *)
(* here only its argument is kept.                                         *)
(***************************************************************************)
Modes == {"ulam", "grid"}

\* cancelAnimationFrame that cancels nothing
CancelNothing(pending, id) == pending

\* line 211: cancelAnimationFrame(animationId)
CancelFrame(pending, id) == pending \ {id}

\* line 230: the id requestAnimationFrame returns.  Only animationId keeps an
\* id, and it is overwritten by this one, so the least unused id stands for
\* the next one of the browser's counter.
FreshId(pending) ==
    CHOOSE id \in 1..(Cardinality(pending) + 1) :
        id \notin pending /\ \A other \in 1..(id - 1) : other \in pending

\* lines 161-170: updateVisualization up to its await, reading count given
\* the visualization that is current then
Started(count, visualization) == [count |-> count, startedOn |-> visualization]

\* an update applied to the visualization that was current when it started
UpdateTargetCaptured(t) == t.startedOn

\* line 187: currentVisualization?.update(config), read after the await
UpdateTarget(t) == currentVisualization

\* lines 209-226: switchMode(mode), with updateVisualization() up to its
\* await and the first animate()
switchMode(mode) ==
    LET old == currentVisualization
        kept == IF old # NoVisualization THEN CancelFrame(frames, animationId) ELSE frames
        new == old + 1
        fresh == FreshId(kept)
    IN  /\ Len(timers) < MaxPending
        /\ old < MaxInstances
        /\ disposed' = IF old # NoVisualization THEN disposed \cup {old} ELSE disposed
        /\ currentMode' = mode
        /\ currentVisualization' = new
        /\ timers' = Append(timers, Started(countSlider, new))
        /\ animationId' = fresh
        /\ frames' = kept \cup {fresh}
        /\ used' = [op |-> "render", on |-> new, onDisposed |-> new \in disposed']
        /\ UNCHANGED countSlider

\* lines 291-300: init()
UI_init ==
    /\ currentVisualization = NoVisualization
    /\ switchMode("ulam")
    /\ UNCHANGED <<callVars, pinned, sieve, viewVars>>

\* lines 235-237: the mode select changes
ModeChange ==
    /\ currentVisualization # NoVisualization
    /\ \E mode \in Modes : switchMode(mode)
    /\ UNCHANGED <<callVars, pinned, sieve, viewVars>>

\* lines 247-255 and 275-281: point size, label checkboxes, and the modulus
\* in grid mode: updateVisualization() with the count unchanged
ControlChange ==
    /\ currentVisualization # NoVisualization
    /\ Len(timers) < MaxPending
    /\ \E control \in {"pointSize", "modulus", "showPrimeLabels", "showCompositeLabels"} :
          control = "modulus" => currentMode = "grid"
    /\ timers' = Append(timers, Started(countSlider, currentVisualization))
    /\ UNCHANGED <<countSlider, currentVisualization, currentMode, animationId,
                   frames, disposed, used>>
    /\ UNCHANGED <<callVars, pinned, sieve, viewVars>>

\* the positions the user drags the count slider to: the ends of its range
SliderPositions == {MinCount, MaxCount}

\* lines 243-245: the count slider is released at a position
SlideCount ==
    /\ currentVisualization # NoVisualization
    /\ Len(timers) < MaxPending
    /\ \E position \in SliderPositions :
          /\ countSlider' = position
          /\ timers' = Append(timers, Started(position, currentVisualization))
    /\ UNCHANGED <<currentVisualization, currentMode, animationId, frames, disposed, used>>
    /\ UNCHANGED <<callVars, pinned, sieve, viewVars>>

\* line 260: Math.max(1, ...)
LowestCount == 1

Min(a, b) == IF a <= b THEN a ELSE b

Max(a, b) == IF a >= b THEN a ELSE b

\* line 260
NewCount(currentCount, delta) == Max(LowestCount, Min(MaxCount, currentCount + delta))

\* the counts the clicks are followed to
CountsFollowed ==
    ((MinCount - MaxClicks)..(MinCount + MaxClicks))
        \cup ((MaxCount - MaxClicks)..MaxCount)

\* lines 258-267: adjustCount(-1) and adjustCount(1)
Click ==
    /\ currentVisualization # NoVisualization
    /\ Len(timers) < MaxPending
    /\ \E delta \in {0 - 1, 1} :
          LET newCount == NewCount(countSlider, delta)
          IN  /\ newCount \in CountsFollowed
              /\ countSlider' = newCount
              /\ timers' = Append(timers, Started(newCount, currentVisualization))
    /\ UNCHANGED <<currentVisualization, currentMode, animationId, frames, disposed, used>>
    /\ UNCHANGED <<callVars, pinned, sieve, viewVars>>

\* lines 172-205: the timer of the oldest waiting updateVisualization fires
TimerFires ==
    /\ timers # <<>>
    /\ LET t == Head(timers)
           target == UpdateTarget(t)
       IN  used' = IF target # NoVisualization
                   THEN [op |-> "update", on |-> target,
                         onDisposed |-> target \in disposed,
                         count |-> t.count, startedOn |-> t.startedOn]
                   ELSE [op |-> "firstNPrimes", count |-> t.count]
    /\ timers' = Tail(timers)
    /\ UNCHANGED <<countSlider, currentVisualization, currentMode, animationId,
                   frames, disposed>>
    /\ UNCHANGED <<callVars, pinned, sieve, viewVars>>

\* lines 229-232: the browser runs a pending animation frame callback
FrameFires ==
    /\ \E id \in frames :
          LET rest == frames \ {id}
              fresh == FreshId(rest)
          IN  /\ animationId' = fresh
              /\ frames' = rest \cup {fresh}
    /\ used' = IF currentVisualization # NoVisualization
               THEN [op |-> "render", on |-> currentVisualization,
                     onDisposed |-> currentVisualization \in disposed]
               ELSE used
    /\ UNCHANGED <<countSlider, currentVisualization, currentMode, timers, disposed>>
    /\ UNCHANGED <<callVars, pinned, sieve, viewVars>>

NextUI ==
    \/ UI_init
    \/ ModeChange
    \/ ControlChange
    \/ SlideCount
    \/ Click
    \/ TimerFires
    \/ FrameFires

SpecUI == Init /\ [][NextUI]_vars

TypeOK ==
    /\ pc \in {"idle", "loop"}
    /\ n \in Int /\ estimate \in Int /\ multiplier \in Int
    /\ pc = "idle" => bounds = <<>>

(***************************************************************************)
(* Properties.                                                             *)
(***************************************************************************)
Returned(f) == last.fn = f

\* C1: for every n >= 0, firstNPrimes(n) has exactly n elements, whatever
\* the estimate the loop started from and however many retries it took.
C1_LengthIsN ==
    (Returned("firstNPrimes") /\ last.arg >= 0) => Len(last.ret) = last.arg

\* a call for n >= 6 that needed at least two retries
C1_Witness ==
    /\ Returned("firstNPrimes")
    /\ last.arg >= 6
    /\ Len(last.bounds) >= 3
    /\ Len(last.ret) = last.arg

\* C2: for every n >= 1, firstNPrimes(n) is the n smallest primes in
\* ascending order: strictly increasing, every element prime, no prime below
\* the last element missing; firstNPrimes(5) = [2,3,5,7,11].
C2_FirstNPrimesAreTheSmallest ==
    (Returned("firstNPrimes") /\ last.arg >= 1) =>
        /\ Len(last.ret) = last.arg
        /\ StrictlyIncreasing(last.ret)
        /\ \A x \in 1..Len(last.ret) : IsPrimeNumber(last.ret[x])
        /\ Range(last.ret) = PrimesUpTo(last.ret[Len(last.ret)])
        /\ last.arg = 5 => last.ret = <<2, 3, 5, 7, 11>>

\* firstNPrimes(5) from the code's own estimate
C2_Witness ==
    /\ Returned("firstNPrimes")
    /\ last.arg = 5
    /\ last.estimate = Estimate(5)
    /\ last.ret = <<2, 3, 5, 7, 11>>

\* C3: for every n >= 0, firstNPrimes(n) equals the first n elements of
\* firstNPrimes(n+1), across the n = 0/1/2 special cases and the change of
\* estimate between n = 5 and n = 6.
C3_PrefixOfNext ==
    (Returned("firstNPrimes") /\ last.arg >= 0) =>
        LET nxt == firstNPrimes(last.arg + 1)
        IN  /\ Len(nxt) >= last.arg
            /\ last.ret = SubSeq(nxt, 1, last.arg)

\* n = 5 (fixed estimate) against n + 1 = 6 (logarithmic estimate)
C3_Witness ==
    /\ Returned("firstNPrimes")
    /\ last.arg = 5
    /\ last.estimate = SmallBound
    /\ Estimate(6) # SmallBound
    /\ firstNPrimes(6) = Append(last.ret, 13)

\* C4: for every limit >= 0, sieveOfEratosthenes(limit) is exactly the
\* primes p with 2 <= p <= limit, ascending and without duplicates;
\* sieve(10) = [2,3,5,7]; the result is empty when limit < 2.
C4_SieveIsPrimesUpToLimit ==
    (Returned("sieveOfEratosthenes") /\ last.arg >= 0) =>
        /\ StrictlyIncreasing(last.ret)
        /\ Range(last.ret) = PrimesUpTo(last.arg)
        /\ last.arg < 2 => last.ret = <<>>
        /\ last.arg = 10 => last.ret = <<2, 3, 5, 7>>

\* a limit that is itself prime: it is the last element
C4_Witness ==
    /\ Returned("sieveOfEratosthenes")
    /\ last.arg = 47
    /\ Len(last.ret) = 15
    /\ last.ret[15] = 47

\* C5: for every n >= 2, primeFactorization(n) is non-decreasing, all its
\* elements are prime and their product is n; the value left after the odd
\* divisor loop, when greater than 1, is prime; a prime p yields [p].
C5_FactorizationIsPrimeAndMultipliesToN ==
    (Returned("primeFactorization") /\ last.arg >= 2) =>
        /\ NonDecreasing(last.ret)
        /\ \A x \in 1..Len(last.ret) : IsPrimeNumber(last.ret[x])
        /\ Product(last.ret) = last.arg
        /\ last.rest > 1 => IsPrimeNumber(last.rest)
        /\ IsPrimeNumber(last.arg) => last.ret = <<last.arg>>

\* 45 = 3 * 3 * 5: a repeated odd factor, and 5 left over after the loop
C5_Witness ==
    /\ Returned("primeFactorization")
    /\ last.arg = 45
    /\ last.ret = <<3, 3, 5>>
    /\ last.rest = 5

\* C6: primeGaps(primes) has length len(primes) - 1 with
\* gap[i] = primes[i+1] - primes[i] for every i, and is empty when the input
\* has fewer than 2 elements (for the empty input, too, where len - 1 is
\* not a length); primeGaps([2,3,5,7,11]) = [1,2,2,4].
C6_GapsArePairwiseDifferences ==
    Returned("primeGaps") =>
        /\ Len(last.arg) >= 1 => Len(last.ret) = Len(last.arg) - 1
        /\ Len(last.arg) < 2 => last.ret = <<>>
        /\ \A x \in 1..(Len(last.arg) - 1) : last.ret[x] = last.arg[x + 1] - last.arg[x]
        /\ last.arg = <<2, 3, 5, 7, 11>> => last.ret = <<1, 2, 2, 4>>

\* an unsorted input: the gaps are the signed differences
C6_Witness ==
    /\ Returned("primeGaps")
    /\ last.arg = <<3, 0, 2>>
    /\ last.ret = <<0 - 3, 2>>

\* C7: for every n >= 2, every element of primeGaps(firstNPrimes(n)) is
\* >= 1, the first gap is 1, and every other gap is even (hence >= 2).
C7_GapsOfPrimes ==
    (Returned("primeGaps") /\ last.of >= 2) =>
        /\ Len(last.ret) = last.of - 1
        /\ \A x \in 1..Len(last.ret) : last.ret[x] >= 1
        /\ last.ret[1] = 1
        /\ \A x \in 2..Len(last.ret) : last.ret[x] % 2 = 0 /\ last.ret[x] >= 2

\* the gaps of firstNPrimes(n), n >= 6: 1, 2, 2, 4, 2, ...
C7_Witness ==
    /\ Returned("primeGaps")
    /\ last.of >= 6
    /\ SubSeq(last.ret, 1, 5) = <<1, 2, 2, 4, 2>>

\* C8: isPrime(k) is true exactly when k >= 2 and k has no divisor other
\* than 1 and itself; equivalently, for every limit >= k, isPrime(k) is true
\* iff k is an element of sieveOfEratosthenes(limit).
C8_IsPrimeAgreesWithSieve ==
    Returned("isPrime") =>
        /\ last.ret <=> IsPrimeNumber(last.arg)
        /\ \A limit \in Inputs :
              last.arg <= limit =>
                 (last.ret <=> last.arg \in Range(sieveOfEratosthenes(limit)))

\* the square of an odd prime: the trial division reaches i = sqrt(k)
C8_Witness ==
    /\ Returned("isPrime")
    /\ last.arg = 49
    /\ last.ret = FALSE
    /\ 49 \notin Range(sieveOfEratosthenes(MaxNum))

\* the limits sieved in one call: the estimate, then each the double of
\* the one before
Doubling(bs, est) ==
    /\ bs[1] = est
    /\ \A x \in 2..Len(bs) : bs[x] = 2 * bs[x - 1]

C9_BoundsDouble ==
    /\ pc = "loop" => Doubling(bounds, estimate)
    /\ (Returned("firstNPrimes") /\ last.arg >= 2) =>
          /\ Doubling(last.bounds, last.estimate)
          /\ Cardinality(PrimesUpTo(last.bounds[Len(last.bounds)])) >= last.arg

\* C9: for every n >= 2 the retry loop terminates: from the estimate E the
\* re-sieve bounds are 2E, 4E, 8E, ..., and after finitely many retries the
\* sieve holds at least n primes and the loop exits.
C9_RetryLoopTerminates ==
    /\ []C9_BoundsDouble
    /\ (pc = "loop") ~> (pc = "idle")

\* a call that returned after three retries, the last at 8E
C9_Witness ==
    /\ Returned("firstNPrimes")
    /\ last.arg >= 2
    /\ Len(last.bounds) = 4
    /\ last.bounds[4] = 8 * last.estimate

\* C10: degenerate inputs give empty results and no error: firstNPrimes(n)
\* for n <= 0, sieveOfEratosthenes(limit) for limit < 2, primeGaps of fewer
\* than 2 elements, primeFactorization(n) for n < 2.
C10_DegenerateInputsGiveEmpty ==
    /\ (Returned("firstNPrimes") /\ last.arg <= 0) => last.ret = <<>>
    /\ (Returned("sieveOfEratosthenes") /\ last.arg < 2) =>
          last.ret = <<>> /\ ~last.threw
    /\ (Returned("primeGaps") /\ Len(last.arg) < 2) => last.ret = <<>>
    /\ (Returned("primeFactorization") /\ last.arg < 2) => last.ret = <<>>

\* a negative limit, for which line 110 alone would ask for a negative length
C10_Witness ==
    /\ Returned("sieveOfEratosthenes")
    /\ last.arg = 0 - 2
    /\ last.ret = <<>>
    /\ ~last.threw

\* C11: two calls of firstNPrimes with the same n give identical sequences,
\* whatever calls of firstNPrimes, sieveOfEratosthenes, primeGaps or
\* primeFactorization are made in between.
C11_SameArgumentSameResult ==
    (Returned("firstNPrimes") /\ pinned.set /\ pinned.arg = last.arg) =>
        last.ret = pinned.ret

\* a second call for the same n >= 6, after calls of other functions, that
\* took retries
C11_Witness ==
    /\ Returned("firstNPrimes")
    /\ pinned.set
    /\ pinned.between
    /\ pinned.arg = last.arg
    /\ last.arg >= 6
    /\ Len(last.bounds) >= 2
    /\ last.ret = pinned.ret

\* C12: the n = 1 short-circuit is redundant: the general path (estimate,
\* sieve, retry loop, truncation) entered with n = 1 returns [2] as well.
C12_GeneralPathGivesTwo ==
    Returned("generalPath") =>
        /\ last.ret = <<2>>
        /\ last.ret = firstNPrimes(last.arg)

\* the general path from the estimate the code computes for n = 1
C12_Witness ==
    /\ Returned("generalPath")
    /\ last.arg = 1
    /\ last.estimate = Estimate(1)
    /\ last.ret = <<2>>

\* C17: for 2 <= n < 6 the fixed bound 15 is sufficient: sieve(15) holds at
\* least n primes, so the body of the retry loop is never executed.
C17_SmallBoundNeedsNoRetry ==
    /\ (pc = "loop" /\ n < 6 /\ estimate = SmallBound) =>
          /\ ~NeedsRetry(primes, n)
          /\ bounds = <<SmallBound>>
    /\ (Returned("firstNPrimes") /\ last.arg >= 2 /\ last.arg < 6
            /\ last.estimate = SmallBound) =>
          last.bounds = <<SmallBound>>

\* firstNPrimes(5) returned after the one sieve of 15
C17_Witness ==
    /\ Returned("firstNPrimes")
    /\ last.arg = 5
    /\ last.estimate = SmallBound
    /\ last.bounds = <<15>>
    /\ Len(last.ret) = 5

\* C16: starting the marking at i*i loses nothing: whenever the outer loop
\* of sieveOfEratosthenes reaches an index i in 2..limit, isComposite[i] is
\* set iff i is composite, and every multiple of i by a smaller factor is
\* marked already; the passes return what the function returns.
C16_ReachedIndexIsMarkedIffComposite ==
    /\ (sieve.at = "outer" /\ sieve.i <= sieve.limit) =>
          /\ (sieve.isComposite[sieve.i] = 1) <=> ~IsPrimeNumber(sieve.i)
          /\ \A m \in 2..(sieve.i - 1) :
                m * sieve.i <= sieve.limit => sieve.isComposite[m * sieve.i] = 1
    /\ (sieve.at = "returned") => sieve.primes = sieveOfEratosthenes(sieve.limit)

\* the loop reaches the prime 5 with 10, 15 and 20 below 25 marked already
C16_Witness ==
    /\ sieve.at = "outer"
    /\ sieve.i = 5
    /\ sieve.limit >= 25
    /\ sieve.isComposite[5] = 0
    /\ sieve.isComposite[10] = 1 /\ sieve.isComposite[15] = 1 /\ sieve.isComposite[20] = 1
    /\ sieve.isComposite[25] = 0

(***************************************************************************)
(* The square spiral drawn in the doc comment of UlamSpiral (PrimeGaps.ts, *)
(* lines 151-155), row by row from the top.                                *)
(***************************************************************************)
Diagram ==
    << <<17, 16, 15, 14, 13>>,
       <<18,  5,  4,  3, 12>>,
       <<19,  6,  1,  2, 11>>,
       <<20,  7,  8,  9, 10>>,
       <<21, 22, 23, 24, 25>> >>

DiagramCell(num) ==
    CHOOSE rc \in (1..5) \X (1..5) : Diagram[rc[1]][rc[2]] = num

\* the cell of num with 1 at (0, 0), x to the right and y upwards
DiagramUp(num) == [x |-> DiagramCell(num)[2] - 3, y |-> 3 - DiagramCell(num)[1]]

\* the same with y downwards
DiagramDown(num) == [x |-> DiagramCell(num)[2] - 3, y |-> DiagramCell(num)[1] - 3]

\* C15: numberToPosition places every n of 1..25 where the doc comment's
\* diagram draws it (2 to the right of 1, 3 above 2, ..., 10 to the right
\* of 9), with y read upwards or downwards.
C15_PositionsFollowDiagram ==
    (placed.n \in 1..25) =>
        \/ placed.at = DiagramUp(placed.n)
        \/ placed.at = DiagramDown(placed.n)

Manhattan(a, b) ==
    (IF a.x >= b.x THEN a.x - b.x ELSE b.x - a.x)
        + (IF a.y >= b.y THEN a.y - b.y ELSE b.y - a.y)

\* C18: numberToPosition is a square spiral: distinct numbers get distinct
\* cells, n and n+1 are at Manhattan distance 1 (also across rings), and
\* the default branch of the switch is never taken.
C18_SquareSpiral ==
    (placed.n >= 1) =>
        /\ \A m \in 1..MaxPlace :
              m # placed.n => numberToPosition(m) # placed.at
        /\ Manhattan(placed.at, numberToPosition(placed.n + 1)) = 1
        /\ placed.branch # "default"

\* 25, the last number of ring 2, whose successor 26 starts ring 3
C18_Witness ==
    /\ placed.n = 25
    /\ placed.at = [x |-> 2, y |-> 2]
    /\ placed.branch = "case"
    /\ numberToPosition(26) = [x |-> 2, y |-> 3]

\* the numbers that have a label in the scene
InScene == UNION {scene[x].sprites : x \in 1..Len(scene)}

\* C14: after addLabels a label exists for m iff 1 <= m <= 100, m has a
\* position, and (m is in the prime set and showPrimeLabels) or (m is not
\* and showCompositeLabels); the labels of the previous update are gone, so
\* the scene never holds more than one labels group, and none when both
\* flags are off.
C14_LabelsFollowCheckboxes ==
    /\ Len(scene) <= 1
    /\ (shown.fn = "addLabels") =>
          /\ \A m \in 0..(LabelLimit + 1) :
                m \in InScene <=>
                    /\ 1 <= m /\ m <= 100
                    /\ m \in shown.keys
                    /\ \/ m \in shown.primeSet /\ shown.showPrimeLabels
                       \/ m \notin shown.primeSet /\ shown.showCompositeLabels
          /\ (~shown.showPrimeLabels /\ ~shown.showCompositeLabels) => scene = <<>>

\* PolarSpiral with only the composite labels on: 100 is labelled, 2 is not
C14_Witness ==
    /\ shown.fn = "addLabels"
    /\ shown.by = "PolarSpiral"
    /\ shown.showCompositeLabels /\ ~shown.showPrimeLabels
    /\ Len(scene) = 1
    /\ scene[1] = labelsGroup
    /\ 100 \in InScene /\ 1 \in InScene /\ 2 \notin InScene

\* C19: after any sequence of switchMode calls and animation frame
\* callbacks at most one animation frame request is pending, and it is the
\* one animationId names.
C19_OneFramePending ==
    /\ Cardinality(frames) <= 1
    /\ (currentVisualization # NoVisualization) => frames = {animationId}

\* after two mode changes and a frame, one request is pending
C19_Witness ==
    /\ currentVisualization = 3
    /\ disposed = {1, 2}
    /\ used.op = "render" /\ used.on = 3
    /\ Cardinality(frames) = 1

\* C20: under every interleaving of UI events, timer continuations and
\* animation frames, update() and render() are never called on a
\* visualization whose dispose() was called: an update started before a mode
\* switch is applied to the visualization that is current when its timer
\* fires.
C20_NoUseAfterDispose ==
    (used.op \in {"update", "render"}) =>
        /\ ~used.onDisposed
        /\ used.on = currentVisualization

\* an update started on a visualization that was disposed before its timer
\* fired, applied to the current one
C20_Witness ==
    /\ used.op = "update"
    /\ used.startedOn \in disposed
    /\ used.on = currentVisualization
    /\ used.on # used.startedOn
    /\ ~used.onDisposed

\* C13: the count is adjustable from 100 to 1,000,000: whatever count-minus
\* and count-plus clicks are made from a count in that range, the count
\* written to the slider and the count passed to firstNPrimes stay within
\* 100..1,000,000.
C13_CountStaysInRange ==
    /\ countSlider \in 100..1000000
    /\ \A x \in 1..Len(timers) : timers[x].count \in 100..1000000
    /\ (used.op = "update") => used.count \in 100..1000000

=============================================================================

